---- MODULE Spec2Model ----
(***************************************************************************)
(* log-parser: parallel scan of a newline-delimited JSON log file.         *)
(* The model follows src/src/parser.rs: the three parsers                  *)
(* (multi_thread_parser_dashmap, multi_thread_parser_channel,              *)
(* single_thread_parser), the per-thread scan partially_read_file, the     *)
(* LogRegister arithmetic and the sample-file generator.                   *)
(*                                                                         *)
(* A file is a sequence of line texts; every text ends with its line       *)
(* terminator, and a line's byte length is the length of its text.         *)
(***************************************************************************)
EXTENDS Integers, Sequences, FiniteSets, TLC

VARIABLES
    input_file,         \* the file: a sequence of line texts
    num_of_thread,      \* the num_of_thread argument
    parser,             \* which parser runs: "dashmap", "channel" or "single"
    mpc,                \* position of the calling thread
    spawned,            \* idx of the spawn loop: threads started so far
    joined,             \* threads joined so far (dashmap parser)
    wpc,                \* position of each spawned thread
    cursor,             \* byte position of each thread's BufReader
    total_bytes_read,   \* partially_read_file's total_bytes_read, per thread
    pending,            \* the handler call in progress (dashmap parser), per thread
    log_register,       \* the aggregate map (DashMap or HashMap)
    channel,            \* messages sent and not yet received (channel parser)
    consumed,           \* history: per thread, the reads handed to the decoder
    discarded,          \* history: per thread, bytes skipped by the initial read_line
    invoked,            \* history: the aggregate of all log_handler invocations
    truth               \* a map to compare against: the generator's, or an earlier run's

vars == <<input_file, num_of_thread, parser, mpc, spawned, joined, wpc, cursor,
          total_bytes_read, pending, log_register, channel, consumed, discarded,
          invoked, truth>>

---------------------------------------------------------------------------
(* Bounds of the model. *)
MaxLines == 3
MaxThreads == 3
MaxSampleLines == 2
\* the longest file of the runs checked for termination, and of the runs
\* checked with I/O errors at every step
MaxFairLines == 2
\* merge order: the number of deltas merged, and the largest field of a delta
MaxDeltas == 3
MaxDelta == 2

---------------------------------------------------------------------------
(* Line texts.  Each is a complete line as it sits in the file. *)

EmptyLine == "\n"
NonStringTypeLine == "{\"type\":7}\n"
LineA == "{\"type\":\"a\"}\n"
LineB == "{\"type\":\"b\"}\n"
LongLineB == "{\"type\":\"b\",\"message\":\"0123456789abcde\"}\n"

\* the texts of the files scanned in parallel, and of those scanned by one worker
LineTexts == {EmptyLine, NonStringTypeLine, LineA, LongLineB}
SingleLineTexts == LineTexts \cup {LineB}

(* One record as prepare_sample_file writes it: json!({"type","id","message"})
   serialised (SampleRecord), followed by "\n" (SampleLine). *)
SampleId == "123e4567-e89b-42d3-a456-426614174000"
SampleTypes == {"0", "1"}
SampleMessages == {"x", "xy"}
SampleRecord(log_type, msg) ==
    "{\"id\":\"" \o SampleId \o "\",\"message\":\"" \o msg
        \o "\",\"type\":\"" \o log_type \o "\"}"
SampleLine(log_type, msg) == SampleRecord(log_type, msg) \o "\n"

Err == "Err"

(* serde_json::from_str::<Log>: Ok(log_type) for an object with a string
   field "type" (other fields ignored), Err otherwise. *)
from_str(text) ==
    IF \E t \in SampleTypes, m \in SampleMessages : text = SampleLine(t, m)
    THEN CHOOSE t \in SampleTypes : \E m \in SampleMessages : text = SampleLine(t, m)
    ELSE CASE text = LineA -> "a"
           [] text = LineB -> "b"
           [] text = LongLineB -> "b"
           [] OTHER -> Err

SeqsUpTo(S, n) == UNION {[1..k -> S] : k \in 0..n}
Files == SeqsUpTo(LineTexts, MaxLines)
SingleFiles == SeqsUpTo(SingleLineTexts, MaxLines)

---------------------------------------------------------------------------
(* File geometry. *)

RECURSIVE SumLen(_, _)
SumLen(f, k) == IF k = 0 THEN 0 ELSE SumLen(f, k - 1) + Len(f[k])

\* file.metadata().len()
Size(f) == SumLen(f, Len(f))
\* offset of the first byte of line k, and of the byte after its last
LineStart(f, k) == SumLen(f, k - 1)
LineEnd(f, k) == SumLen(f, k)

(* BufRead::read_line at byte position p: the bytes from p up to and including
   the next "\n".  n = 0 at end of file.  idx is the line holding byte p, and
   whole tells whether the read started at the line's first byte. *)
read_line(f, p) ==
    IF p >= Size(f)
    THEN [n |-> 0, idx |-> 0, whole |-> FALSE]
    ELSE LET k == CHOOSE j \in 1..Len(f) : LineStart(f, j) <= p /\ p < LineEnd(f, j)
         IN  [n |-> LineEnd(f, k) - p, idx |-> k, whole |-> (p = LineStart(f, k))]

\* what the decoder makes of a read: only a whole line can be a record
Decode(f, r) == IF r.whole THEN from_str(f[r.idx]) ELSE Err

---------------------------------------------------------------------------
(* LogRegister and the aggregate map. *)

New(num_of_bytes) == [counter |-> 1, num_of_bytes |-> num_of_bytes]
Zero == [counter |-> 0, num_of_bytes |-> 0]
\* a slip: the counter is not summed
add_assign_keeps_counter(self, rhs) ==
    [counter |-> self.counter, num_of_bytes |-> self.num_of_bytes + rhs.num_of_bytes]
\* a slip: the byte total is replaced instead of summed
add_assign_replaces_bytes(self, rhs) ==
    [counter |-> self.counter + rhs.counter, num_of_bytes |-> rhs.num_of_bytes]
add_assign(self, rhs) ==
    [counter |-> self.counter + rhs.counter,
     num_of_bytes |-> self.num_of_bytes + rhs.num_of_bytes]

EmptyMap == [k \in {} |-> Zero]
\* a slip: insert(key, default), which replaces the value of a key already present
or_insert_replaces(map, key, default) ==
    [k \in DOMAIN map \cup {key} |-> IF k = key THEN default ELSE map[k]]
\* entry(key).or_insert(default): the map with the key present
or_insert(map, key, default) ==
    [k \in DOMAIN map \cup {key} |-> IF k \in DOMAIN map THEN map[k] ELSE default]
\* *value = v through the entry's reference
Store(map, key, v) == [k \in DOMAIN map \cup {key} |-> IF k = key THEN v ELSE map[k]]
\* a slip: the incoming value replaces the stored one
MergeOverwrites(map, key, rhs) == Store(map, key, rhs)
\* entry(key).or_insert(zero) followed by add_assign, by one owner
Merge(map, key, rhs) ==
    Store(map, key, add_assign(or_insert(map, key, Zero)[key], rhs))

---------------------------------------------------------------------------
(* Partitioning. *)

Threads == 0..(num_of_thread - 1)
bytes_portion == Size(input_file) \div num_of_thread
start_idx(idx) == idx * bytes_portion

\* a slip: the initial read_line is never done
NeverResync(start) == FALSE
\* a slip: the initial read_line is done at the file's start too
AlwaysResync(start) == TRUE
\* line 112: the initial read_line happens only away from the file's start
NeedsResync(start) == start > 0
\* a slip: the loop breaks already when the total reaches the budget
BudgetReached(total, num_of_bytes) == total >= num_of_bytes
\* line 140: the loop's break condition
BudgetExceeded(total, num_of_bytes) == total > num_of_bytes

NoPending == [bytes_read |-> 0, log_type |-> Err, value |-> Zero]
NoTruth == [known |-> FALSE, map |-> EmptyMap]
Known(map) == [known |-> TRUE, map |-> map]

---------------------------------------------------------------------------
Init ==
    /\ input_file \in Files
    /\ parser \in {"dashmap", "channel", "single"}
    /\ num_of_thread \in IF parser = "single" THEN {1} ELSE 0..MaxThreads
    /\ mpc = "open"
    /\ spawned = 0
    /\ joined = 0
    /\ wpc = [i \in Threads |-> "unspawned"]
    /\ cursor = [i \in Threads |-> 0]
    /\ total_bytes_read = [i \in Threads |-> 0]
    /\ pending = [i \in Threads |-> NoPending]
    /\ log_register = EmptyMap
    /\ channel = <<>>
    /\ consumed = [i \in Threads |-> <<>>]
    /\ discarded = [i \in Threads |-> 0]
    /\ invoked = EmptyMap
    /\ truth = NoTruth

---------------------------------------------------------------------------
(* prepare_sample_file, given the random draws (log_type, msg) of its loop:
   the lines written and the register returned. *)
SampleDraws == SeqsUpTo(SampleTypes \X SampleMessages, MaxSampleLines)
SampleFile(draws) == [k \in 1..Len(draws) |-> SampleLine(draws[k][1], draws[k][2])]
RECURSIVE SampleRegister(_, _)
SampleRegister(draws, k) ==
    IF k = 0 THEN EmptyMap
    ELSE Merge(SampleRegister(draws, k - 1), draws[k][1],
               New(Len(SampleRecord(draws[k][1], draws[k][2])) + 1))
prepare_sample_file(draws) ==
    [file |-> SampleFile(draws), log_register |-> SampleRegister(draws, Len(draws))]

---------------------------------------------------------------------------
(* The calling thread. *)

\* lines 59-66, 151-158, 202-203: open the file, take its size, divide
\* a slip: the division by the thread count is taken never to panic
DivisionNeverPanics(n) == FALSE
\* lines 66, 158: size / num_of_thread panics when the divisor is 0
\* (main.rs 47-49 refuses the same count before the call)
DivisionPanics(n) == n = 0

OpenFile ==
    /\ mpc = "open"
    /\ mpc' = IF parser = "single" THEN "single_read"
              ELSE IF DivisionPanics(num_of_thread) THEN "panicked"
              ELSE "spawn"
    /\ UNCHANGED <<input_file, num_of_thread, parser, spawned, joined, wpc, cursor,
                   total_bytes_read, pending, log_register, channel, consumed,
                   discarded, invoked, truth>>

\* lines 73-89, 168-185: one turn of the spawn loop
Spawn ==
    /\ mpc = "spawn"
    /\ spawned < num_of_thread
    /\ wpc' = [wpc EXCEPT ![spawned] = "seek"]
    /\ spawned' = spawned + 1
    /\ mpc' = IF spawned + 1 < num_of_thread THEN "spawn"
              ELSE IF parser = "dashmap" THEN "join" ELSE "drop_tx"
    /\ UNCHANGED <<input_file, num_of_thread, parser, joined, cursor,
                   total_bytes_read, pending, log_register, channel, consumed,
                   discarded, invoked, truth>>

\* lines 91-97: join the threads in spawn order; a panicked thread makes expect panic
Join ==
    /\ mpc = "join"
    /\ joined < num_of_thread
    /\ wpc[joined] \in {"finished", "panicked"}
    /\ joined' = joined + 1
    /\ mpc' = IF wpc[joined] = "panicked" THEN "panicked"
              ELSE IF joined + 1 < num_of_thread THEN "join" ELSE "returned"
    /\ UNCHANGED <<input_file, num_of_thread, parser, spawned, wpc, cursor,
                   total_bytes_read, pending, log_register, channel, consumed,
                   discarded, invoked, truth>>

\* line 186
DropTx ==
    /\ mpc = "drop_tx"
    /\ mpc' = "recv"
    /\ UNCHANGED <<input_file, num_of_thread, parser, spawned, joined, wpc, cursor,
                   total_bytes_read, pending, log_register, channel, consumed,
                   discarded, invoked, truth>>

\* a slip: a thread's Sender counts as dropped while the thread still scans
SenderAlwaysDropped(i) == TRUE
\* a thread's Sender clone lives until its closure ends, by return or by unwinding
SenderDropped(i) == wpc[i] \in {"finished", "panicked"}
\* a slip: the loop ends as soon as no Sender is left, whatever is still queued
SendersGone == \A i \in Threads : SenderDropped(i)
\* a slip: drop(tx) is forgotten and the caller's own Sender lives on
MainSenderKept == FALSE
\* line 186: the caller's own Sender is dropped before the receive loop starts
MainSenderDropped == mpc \in {"recv", "returned"}
\* the receiver's iterator ends when the queue is empty and no Sender is left
Disconnected ==
    /\ channel = <<>>
    /\ MainSenderDropped
    /\ \A i \in Threads : SenderDropped(i)

\* lines 189-192: receive one message and fold it
Recv ==
    /\ mpc = "recv"
    /\ channel # <<>>
    /\ log_register' = Merge(log_register, Head(channel)[1], Head(channel)[2])
    /\ channel' = Tail(channel)
    /\ UNCHANGED <<input_file, num_of_thread, parser, mpc, spawned, joined, wpc,
                   cursor, total_bytes_read, pending, consumed, discarded, invoked,
                   truth>>

\* lines 189, 194: the iteration over rx ends, the map is returned
RecvEnd ==
    /\ mpc = "recv"
    /\ Disconnected
    /\ mpc' = "returned"
    /\ UNCHANGED <<input_file, num_of_thread, parser, spawned, joined, wpc, cursor,
                   total_bytes_read, pending, log_register, channel, consumed,
                   discarded, invoked, truth>>

\* lines 206-225: one turn of single_thread_parser's loop, read by the caller
\* itself (its reader is kept at index 0)
SingleRead ==
    /\ mpc = "single_read"
    /\ LET r == read_line(input_file, cursor[0])
           log == Decode(input_file, r)
       IN  IF r.n = 0
           THEN /\ mpc' = "returned"
                /\ UNCHANGED <<cursor, consumed, log_register, invoked>>
           ELSE /\ mpc' = mpc
                /\ cursor' = [cursor EXCEPT ![0] = @ + r.n]
                /\ consumed' = [consumed EXCEPT ![0] = Append(@, [idx |-> r.idx, whole |-> r.whole])]
                /\ IF log # Err
                   THEN /\ log_register' = Merge(log_register, log, New(r.n))
                        /\ invoked' = Merge(invoked, log, New(r.n))
                   ELSE UNCHANGED <<log_register, invoked>>
    /\ UNCHANGED <<input_file, num_of_thread, parser, spawned, joined, wpc,
                   total_bytes_read, pending, channel, discarded, truth>>

---------------------------------------------------------------------------
(* A spawned thread: partially_read_file and its log_handler. *)

\* lines 105-120: seek, skip to the next line start, initialise the total
Seek(i) ==
    /\ wpc[i] = "seek"
    /\ LET offset == IF NeedsResync(start_idx(i))
                     THEN read_line(input_file, start_idx(i)).n ELSE 0
       IN  /\ cursor' = [cursor EXCEPT ![i] = start_idx(i) + offset]
           /\ discarded' = [discarded EXCEPT ![i] = offset]
           /\ total_bytes_read' = [total_bytes_read EXCEPT ![i] = offset]
    /\ wpc' = [wpc EXCEPT ![i] = "read_line"]
    /\ UNCHANGED <<input_file, num_of_thread, parser, mpc, spawned, joined, pending,
                   log_register, channel, consumed, invoked, truth>>

\* a slip: a line that fails to decode is left out of the total
AccountedWhenDecoded(bytes_read, log) == IF log = Err THEN 0 ELSE bytes_read
\* line 135: the bytes a line adds to the total, whatever the decoder said
Accounted(bytes_read, log) == bytes_read

\* lines 135-142: account for the line, then go on or break
AfterLine(i, bytes_read, log) ==
    LET total == total_bytes_read[i] + Accounted(bytes_read, log)
    IN  /\ total_bytes_read' = [total_bytes_read EXCEPT ![i] = total]
        /\ wpc' = [wpc EXCEPT ![i] =
                     IF BudgetExceeded(total, bytes_portion) THEN "finished"
                     ELSE "read_line"]

\* lines 122-132 (and 135-142 when no handler call is left pending): read a
\* line, decode it, call the handler.  The channel handler (lines 176-180) is a
\* single send; the dashmap handler goes on in Entry and AddAssign.
ReadLine(i) ==
    /\ wpc[i] = "read_line"
    /\ LET r == read_line(input_file, cursor[i])
           log == Decode(input_file, r)
       IN  IF r.n = 0
           THEN /\ wpc' = [wpc EXCEPT ![i] = "finished"]
                /\ UNCHANGED <<cursor, consumed, total_bytes_read, pending, channel,
                               invoked>>
           ELSE /\ cursor' = [cursor EXCEPT ![i] = @ + r.n]
                /\ consumed' = [consumed EXCEPT ![i] = Append(@, [idx |-> r.idx, whole |-> r.whole])]
                /\ invoked' = IF log # Err THEN Merge(invoked, log, New(r.n)) ELSE invoked
                /\ IF log # Err /\ parser = "dashmap"
                   THEN /\ wpc' = [wpc EXCEPT ![i] = "entry"]
                        /\ pending' = [pending EXCEPT ![i] =
                                         [bytes_read |-> r.n, log_type |-> log, value |-> Zero]]
                        /\ UNCHANGED <<total_bytes_read, channel>>
                   ELSE /\ channel' = IF log # Err
                                      THEN Append(channel, <<log, New(r.n)>>)
                                      ELSE channel
                        /\ AfterLine(i, r.n, log)
                        /\ UNCHANGED pending
    /\ UNCHANGED <<input_file, num_of_thread, parser, mpc, spawned, joined,
                   log_register, discarded, truth>>

\* the entry's guard: a key is locked while a thread holds a reference to its value
Locked(key) == \E j \in Threads : wpc[j] = "add_assign" /\ pending[j].log_type = key
\* a slip: the value is reached without taking the key's lock
EntryUnguarded(key) == TRUE
\* line 82: entry() waits for the key's lock
EntryAvailable(key) == ~Locked(key)

\* line 82: log_reg.entry(log_type).or_insert(zero): take the lock, insert the
\* zero value when the key is absent, obtain the value
Entry(i) ==
    /\ wpc[i] = "entry"
    /\ EntryAvailable(pending[i].log_type)
    /\ log_register' = or_insert(log_register, pending[i].log_type, Zero)
    /\ pending' = [pending EXCEPT ![i].value = log_register'[pending[i].log_type]]
    /\ wpc' = [wpc EXCEPT ![i] = "add_assign"]
    /\ UNCHANGED <<input_file, num_of_thread, parser, mpc, spawned, joined, cursor,
                   total_bytes_read, channel, consumed, discarded, invoked, truth>>

\* lines 83-84, then 135-142: write the sum through the reference, drop the
\* reference (releasing the lock), account for the line
AddAssign(i) ==
    /\ wpc[i] = "add_assign"
    /\ log_register' = Store(log_register, pending[i].log_type,
                             add_assign(pending[i].value, New(pending[i].bytes_read)))
    /\ pending' = [pending EXCEPT ![i] = NoPending]
    /\ AfterLine(i, pending[i].bytes_read, pending[i].log_type)
    /\ UNCHANGED <<input_file, num_of_thread, parser, mpc, spawned, joined, cursor,
                   channel, consumed, discarded, invoked, truth>>

\* lines 107-109, 114, 122: seek or read_line returns an error and expect panics
IOError(i) ==
    /\ wpc[i] \in {"seek", "read_line"}
    /\ wpc' = [wpc EXCEPT ![i] = "panicked"]
    /\ UNCHANGED <<input_file, num_of_thread, parser, mpc, spawned, joined, cursor,
                   total_bytes_read, pending, log_register, channel, consumed,
                   discarded, invoked, truth>>

\* line 206: read_line returns an error in single_thread_parser and expect
\* panics; the map, a local of the function, is dropped by the unwinding
SingleIOError ==
    /\ mpc = "single_read"
    /\ mpc' = "panicked"
    /\ log_register' = EmptyMap
    /\ UNCHANGED <<input_file, num_of_thread, parser, spawned, joined, wpc, cursor,
                   total_bytes_read, pending, channel, consumed, discarded,
                   invoked, truth>>

---------------------------------------------------------------------------
Next ==
    \/ OpenFile
    \/ Spawn
    \/ Join
    \/ DropTx
    \/ Recv
    \/ RecvEnd
    \/ SingleRead
    \/ \E i \in Threads : Seek(i)
    \/ \E i \in Threads : ReadLine(i)
    \/ \E i \in Threads : Entry(i)
    \/ \E i \in Threads : AddAssign(i)

Spec == Init /\ [][Next]_vars

(* The same program on a storage that can fail: any seek or read may return an
   I/O error. *)
NextIO ==
    \/ Next
    \/ \E i \in Threads : IOError(i)
    \/ SingleIOError

SpecIO == Init /\ [][NextIO]_vars

---------------------------------------------------------------------------
(* Single-worker runs, on hand-written files and on files written by
   prepare_sample_file (whose returned register is kept in truth). *)
InitSingle ==
    /\ \/ input_file \in SingleFiles /\ truth = NoTruth
       \/ \E draws \in SampleDraws :
            /\ input_file = prepare_sample_file(draws).file
            /\ truth = Known(prepare_sample_file(draws).log_register)
    /\ parser \in {"dashmap", "channel", "single"}
    /\ num_of_thread = 1
    /\ mpc = "open"
    /\ spawned = 0
    /\ joined = 0
    /\ wpc = [i \in Threads |-> "unspawned"]
    /\ cursor = [i \in Threads |-> 0]
    /\ total_bytes_read = [i \in Threads |-> 0]
    /\ pending = [i \in Threads |-> NoPending]
    /\ log_register = EmptyMap
    /\ channel = <<>>
    /\ consumed = [i \in Threads |-> <<>>]
    /\ discarded = [i \in Threads |-> 0]
    /\ invoked = EmptyMap

SpecSingle == InitSingle /\ [][Next]_vars

---------------------------------------------------------------------------
(* A caller that runs multi_thread_parser_dashmap and then
   multi_thread_parser_channel on the same file with the same num_of_thread,
   keeping the first map in truth. *)
InitPair ==
    /\ Init
    /\ parser = "dashmap"

\* lines 147-150: the second call, after the first has returned its map
RunChannel ==
    /\ mpc = "returned"
    /\ parser = "dashmap"
    /\ ~truth.known
    /\ truth' = Known(log_register)
    /\ parser' = "channel"
    /\ mpc' = "open"
    /\ spawned' = 0
    /\ joined' = 0
    /\ wpc' = [i \in Threads |-> "unspawned"]
    /\ cursor' = [i \in Threads |-> 0]
    /\ total_bytes_read' = [i \in Threads |-> 0]
    /\ pending' = [i \in Threads |-> NoPending]
    /\ log_register' = EmptyMap
    /\ channel' = <<>>
    /\ consumed' = [i \in Threads |-> <<>>]
    /\ discarded' = [i \in Threads |-> 0]
    /\ invoked' = EmptyMap
    /\ UNCHANGED <<input_file, num_of_thread>>

NextPair ==
    \/ OpenFile
    \/ Spawn
    \/ Join
    \/ RunChannel
    \/ DropTx
    \/ Recv
    \/ RecvEnd
    \/ \E i \in Threads : Seek(i)
    \/ \E i \in Threads : ReadLine(i)
    \/ \E i \in Threads : Entry(i)
    \/ \E i \in Threads : AddAssign(i)

SpecPair == InitPair /\ [][NextPair]_vars

---------------------------------------------------------------------------
(* partially_read_file as a function of the file's line lengths alone: the
   reads it hands to the decoder, in order. *)
RECURSIVE ScanFrom(_, _, _, _)
ScanFrom(f, cur, total, num_of_bytes) ==
    LET r == read_line(f, cur)
    IN  IF r.n = 0 THEN <<>>
        ELSE <<[idx |-> r.idx, whole |-> r.whole]>> \o
             (IF BudgetExceeded(total + r.n, num_of_bytes) THEN <<>>
              ELSE ScanFrom(f, cur + r.n, total + r.n, num_of_bytes))

partially_read_file(f, start, num_of_bytes) ==
    LET offset == IF NeedsResync(start) THEN read_line(f, start).n ELSE 0
    IN  ScanFrom(f, start + offset, offset, num_of_bytes)

\* the map a single owner folds from a sequence of reads
RECURSIVE FoldReads(_, _, _)
FoldReads(f, reads, k) ==
    IF k = 0 THEN EmptyMap
    ELSE LET log == Decode(f, reads[k])
             rest == FoldReads(f, reads, k - 1)
         IN  IF log = Err THEN rest ELSE Merge(rest, log, New(Len(f[reads[k].idx])))

\* the map of a run with one worker
SingleWorkerMap(f) ==
    LET reads == partially_read_file(f, 0, Size(f))
    IN  FoldReads(f, reads, Len(reads))

---------------------------------------------------------------------------
(* Vocabulary of the properties. *)

MultiThread == parser \in {"dashmap", "channel"}
Returned == mpc = "returned"
LineIdx == 1..Len(input_file)

\* the lines thread i handed to the decoder, whole or in part
ConsumedBy(i) == {consumed[i][n].idx : n \in 1..Len(consumed[i])}
\* how many times thread i handed line k to the decoder
TimesConsumedBy(i, k) == Cardinality({n \in 1..Len(consumed[i]) : consumed[i][n].idx = k})
Unconsumed == {k \in LineIdx : \A i \in Threads : k \notin ConsumedBy(i)}

RECURSIVE BytesOf(_, _)
BytesOf(f, S) ==
    IF S = {} THEN 0
    ELSE LET k == CHOOSE x \in S : TRUE IN Len(f[k]) + BytesOf(f, S \ {k})

\* the aggregate of the well-formed lines of f, by counting
TypesIn(f) == {from_str(f[k]) : k \in 1..Len(f)} \ {Err}
LinesOfType(f, t) == {k \in 1..Len(f) : from_str(f[k]) = t}
WellFormedAggregate(f) ==
    [t \in TypesIn(f) |->
        [counter |-> Cardinality(LinesOfType(f, t)),
         num_of_bytes |-> BytesOf(f, LinesOfType(f, t))]]

---------------------------------------------------------------------------
(* C1: for every file and every num_of_thread >= 1, no line is handed to the
   decoder by more than one thread (nor twice by one thread).  Stated as the
   claim has it; the code breaks it. *)
C1_NoLineConsumedTwice ==
    MultiThread =>
        \A k \in LineIdx :
            /\ \A i \in Threads : TimesConsumedBy(i, k) <= 1
            /\ \A i, j \in Threads : i # j => ~(k \in ConsumedBy(i) /\ k \in ConsumedBy(j))

(* C2: when the file size is divisible by num_of_thread, the returned map is
   the map of a run with one worker.  Stated as the claim has it; the code
   breaks it. *)
C2_WorkerCountInvariance ==
    (MultiThread /\ Returned /\ Size(input_file) % num_of_thread = 0)
        => log_register = SingleWorkerMap(input_file)

(* C3: once all threads are done, every line whose first byte is at an offset
   <= num_of_thread * bytes_portion has been consumed by some thread; the
   unconsumed lines are a suffix of the file of at most num_of_thread - 1
   bytes, empty when the size is a multiple of num_of_thread. *)
C3_NoGapInsideRange ==
    (MultiThread /\ Returned) =>
        /\ \A k \in LineIdx :
              LineStart(input_file, k) <= num_of_thread * bytes_portion
                  => k \notin Unconsumed
        /\ \A k \in Unconsumed : \A m \in LineIdx : m > k => m \in Unconsumed
        /\ BytesOf(input_file, Unconsumed) <= num_of_thread - 1
        /\ Size(input_file) % num_of_thread = 0 => Unconsumed = {}

\* C3's case: a run of several threads over a non-empty range that leaves a line unconsumed
C3_Witness ==
    /\ MultiThread /\ Returned
    /\ bytes_portion > 0
    /\ Unconsumed # {}

\* the lines that start before the midpoint and end after it
Straddling == {k \in LineIdx :
                 /\ LineStart(input_file, k) < Size(input_file) \div 2
                 /\ LineEnd(input_file, k) > Size(input_file) \div 2}

(* C4: with two threads, a line that starts before the midpoint and ends after
   it is consumed exactly once, whole, by thread 0; thread 1 skips exactly its
   tail and never hands any of it to the decoder. *)
C4_BoundaryLineOnce ==
    (MultiThread /\ Returned /\ num_of_thread = 2) =>
        \A k \in Straddling :
            /\ TimesConsumedBy(0, k) = 1
            /\ \A n \in 1..Len(consumed[0]) : consumed[0][n].idx = k => consumed[0][n].whole
            /\ TimesConsumedBy(1, k) = 0
            /\ discarded[1] = LineEnd(input_file, k) - Size(input_file) \div 2

\* C4's case: a two-thread run over a file with a straddling line, where
\* thread 1 went on to consume a later line
C4_Witness ==
    /\ MultiThread /\ Returned /\ num_of_thread = 2
    /\ Straddling # {}
    /\ consumed[1] # <<>>

(* C5: a run with one worker (either multi-thread parser, or
   single_thread_parser) reads every line to the end of the file and returns,
   per type, the number of well-formed lines and the sum of their byte lengths
   with the terminator; it equals the register prepare_sample_file returned
   for the file, and it is {a: (2, 26), b: (1, 13)} for the three-line file of
   the scenario. *)
C5_SingleWorker ==
    (Returned /\ num_of_thread = 1) =>
        /\ log_register = WellFormedAggregate(input_file)
        /\ consumed[0] = [k \in LineIdx |-> [idx |-> k, whole |-> TRUE]]
        /\ truth.known => log_register = truth.map
        /\ input_file = <<LineA, LineB, LineA>> =>
              log_register = [t \in {"a", "b"} |->
                                 IF t = "a" THEN [counter |-> 2, num_of_bytes |-> 26]
                                 ELSE [counter |-> 1, num_of_bytes |-> 13]]

\* C5's case: a generated file of two types has been parsed by one worker
C5_Witness ==
    /\ Returned /\ num_of_thread = 1
    /\ truth.known
    /\ DOMAIN log_register = {"0", "1"}

\* the step in which thread i hands a line to the decoder and it fails to decode
DecodeFails(i) ==
    /\ Len(consumed'[i]) = Len(consumed[i]) + 1
    /\ Decode(input_file, consumed'[i][Len(consumed'[i])]) = Err

(* C6: a step in which a consumed line fails to decode leaves the map (and
   the channel) as they were, adds the line's length to the thread's total,
   and the thread goes on unless the budget is exceeded; and a thread that
   finishes has consumed exactly the lines that the line lengths alone
   determine. *)
C6_DecodeFailureTolerance ==
    [][MultiThread =>
        \A i \in Threads :
            /\ DecodeFails(i) =>
                  /\ log_register' = log_register
                  /\ channel' = channel
                  /\ total_bytes_read'[i] = total_bytes_read[i] + (cursor'[i] - cursor[i])
                  /\ wpc'[i] = IF total_bytes_read'[i] > bytes_portion
                               THEN "finished" ELSE "read_line"
            /\ (wpc[i] # "finished" /\ wpc'[i] = "finished") =>
                  consumed'[i] = partially_read_file(input_file, start_idx(i), bytes_portion)
    ]_vars

\* C6's case: a finished thread whose first consumed line failed to decode and
\* which consumed a further line
C6_Witness ==
    /\ MultiThread
    /\ \E i \in Threads :
          /\ wpc[i] = "finished"
          /\ Len(consumed[i]) >= 2
          /\ Decode(input_file, consumed[i][1]) = Err
          /\ Decode(input_file, consumed[i][2]) # Err

\* two different threads have handed a line of the same type to the handler
SharedType ==
    \E i, j \in Threads :
        /\ i # j
        /\ \E n \in 1..Len(consumed[i]), m \in 1..Len(consumed[j]) :
              /\ Decode(input_file, consumed[i][n]) # Err
              /\ Decode(input_file, consumed[i][n]) = Decode(input_file, consumed[j][m])

(* C7: when multi_thread_parser_dashmap returns, under every interleaving of
   its threads, each type's counter is the number of handler invocations for
   that type over all threads and its num_of_bytes the sum of the lengths
   passed to them: no merge is lost. *)
C7_NoLostUpdate ==
    (parser = "dashmap" /\ Returned) => log_register = invoked

\* C7's case: a dashmap run has returned after two threads merged into the same type
C7_Witness ==
    /\ parser = "dashmap" /\ Returned
    /\ SharedType

(* C8: in both multi-thread parsers, a map is never returned when a thread
   has panicked on an I/O error.  Stated as the claim has it; the channel
   parser breaks it. *)
C8_NoMapAfterPanic ==
    (MultiThread /\ Returned) => \A i \in Threads : wpc[i] # "panicked"

(* C9: for the same file and num_of_thread, the map multi_thread_parser_channel
   returns equals the map multi_thread_parser_dashmap returned, under every
   interleaving of the threads and every order of arrival of the messages. *)
C9_SameMap ==
    (parser = "channel" /\ Returned /\ truth.known) => log_register = truth.map

\* C9's case: both parsers have returned, with several threads sharing a type
C9_Witness ==
    /\ parser = "channel" /\ Returned /\ truth.known
    /\ SharedType

(* C10: when multi_thread_parser_channel returns, the queue is empty, every
   Sender is dropped, and the map is the fold of exactly the messages sent:
   none is left, dropped or folded twice. *)
C10_CompleteFold ==
    (parser = "channel" /\ Returned) =>
        /\ channel = <<>>
        /\ \A i \in Threads : SenderDropped(i)
        /\ log_register = invoked

\* C10's case: a channel run has returned after several threads sent messages
\* of the same type
C10_Witness ==
    /\ parser = "channel" /\ Returned
    /\ SharedType
    /\ \E t \in DOMAIN log_register : log_register[t].counter >= 2

---------------------------------------------------------------------------
(* multi_thread_parser_channel alone, under fair scheduling: the caller and
   every spawned thread are operating-system threads, each of which keeps
   being scheduled while it has a step to take (the caller has none while it
   is blocked in the receive loop). *)
InitChannel ==
    /\ Init
    /\ parser = "channel"
    /\ Len(input_file) <= MaxFairLines

NextChannel ==
    \/ OpenFile
    \/ Spawn
    \/ DropTx
    \/ Recv
    \/ RecvEnd
    \/ \E i \in Threads : Seek(i)
    \/ \E i \in Threads : ReadLine(i)

\* A step of a thread, once enabled, stays enabled until it is taken, so fair
\* scheduling of each thread gives weak fairness of the next-state action.
FairChannel == WF_vars(NextChannel)

SpecChannelFair == InitChannel /\ [][NextChannel]_vars /\ FairChannel

(* C11: under fair scheduling, every call of multi_thread_parser_channel with
   num_of_thread >= 1 eventually returns, with every Sender (the caller's and
   each thread's clone) dropped: the receive loop cannot block for ever. *)
C11_ChannelTerminates ==
    (mpc = "open" /\ num_of_thread >= 1)
        ~> (Returned /\ \A i \in Threads : SenderDropped(i))

\* C11's case: a channel run of several threads over several lines has returned
C11_Witness ==
    /\ parser = "channel" /\ Returned
    /\ num_of_thread >= 2
    /\ Len(input_file) >= 2
    /\ \A i \in Threads : consumed[i] # <<>>

---------------------------------------------------------------------------
(* The parsers on a storage that can fail, over the shorter files. *)
InitShort ==
    /\ Init
    /\ Len(input_file) <= MaxFairLines

SpecIOShort == InitShort /\ [][NextIO]_vars

\* some spawned thread still has a step to take
ThreadCanStep ==
    \E i \in Threads : ENABLED (Seek(i) \/ ReadLine(i) \/ Entry(i) \/ AddAssign(i))

(* C12: in both multi-thread parsers, when the map has been returned every
   thread has ended its scan (by return or by panic), no handler call is in
   progress, no message is queued and no thread has a step left: no merge
   and no send can follow the return. *)
C12_JoinBeforeReturn ==
    (MultiThread /\ Returned) =>
        /\ \A i \in Threads : wpc[i] \in {"finished", "panicked"}
        /\ \A i \in Threads : pending[i] = NoPending
        /\ channel = <<>>
        /\ ~ThreadCanStep

\* C12's case: a map has been returned by a run of several threads that
\* called the handler
C12_Witness ==
    /\ MultiThread /\ Returned
    /\ num_of_thread >= 2
    /\ invoked # EmptyMap
    /\ \A i \in Threads : consumed[i] # <<>>

---------------------------------------------------------------------------
(* The merge alone: a bag of deltas for one type, folded into the map in an
   arbitrary order (the channel gives no order among the threads' messages).
   truth keeps the map of the fold in the order written. *)
Deltas == [counter : 0..MaxDelta, num_of_bytes : 0..MaxDelta]
DeltaMessages == {<<"a", d>> : d \in Deltas}

RECURSIVE FoldMessages(_, _)
FoldMessages(msgs, k) ==
    IF k = 0 THEN EmptyMap
    ELSE Merge(FoldMessages(msgs, k - 1), msgs[k][1], msgs[k][2])

RemoveAt(seq, n) == [k \in 1..(Len(seq) - 1) |-> IF k < n THEN seq[k] ELSE seq[k + 1]]

InitMerge ==
    /\ input_file = <<>>
    /\ parser = "merge"
    /\ num_of_thread = 0
    /\ mpc = "recv"
    /\ spawned = 0
    /\ joined = 0
    /\ wpc = [i \in Threads |-> "unspawned"]
    /\ cursor = [i \in Threads |-> 0]
    /\ total_bytes_read = [i \in Threads |-> 0]
    /\ pending = [i \in Threads |-> NoPending]
    /\ log_register = EmptyMap
    /\ channel \in SeqsUpTo(DeltaMessages, MaxDeltas)
    /\ consumed = [i \in Threads |-> <<>>]
    /\ discarded = [i \in Threads |-> 0]
    /\ invoked = EmptyMap
    /\ truth = Known(FoldMessages(channel, Len(channel)))

\* lines 190-191 on any one of the outstanding deltas
MergeAny ==
    /\ parser = "merge"
    /\ \E n \in 1..Len(channel) :
          /\ log_register' = Merge(log_register, channel[n][1], channel[n][2])
          /\ channel' = RemoveAt(channel, n)
    /\ UNCHANGED <<input_file, num_of_thread, parser, mpc, spawned, joined, wpc,
                   cursor, total_bytes_read, pending, consumed, discarded, invoked,
                   truth>>

NextMerge == MergeAny

SpecMerge == InitMerge /\ [][NextMerge]_vars

(* C13: for any two deltas d1 and d2, add(add(zero, d1), d2) equals
   add(add(zero, d2), d1); and whatever the order in which the deltas of a
   type are merged, the final aggregate is the one of the order written. *)
C13_MergeCommutes ==
    /\ \A d1, d2 \in Deltas :
          add_assign(add_assign(Zero, d1), d2) = add_assign(add_assign(Zero, d2), d1)
    /\ (parser = "merge" /\ channel = <<>>) => log_register = truth.map

\* C13's case: all deltas have been merged and the byte total exceeds what a
\* single delta can carry, so that several non-zero deltas met in one entry
C13_Witness ==
    /\ parser = "merge" /\ channel = <<>>
    /\ \E t \in DOMAIN log_register :
          /\ log_register[t].num_of_bytes > MaxDelta
          /\ log_register[t].counter > MaxDelta

---------------------------------------------------------------------------
(* C14: with a worker count of 0 the run dies before any parsing: no thread is
   spawned, the handler is never invoked, the map stays empty and the parser
   never returns it. *)
C14_ZeroWorkersFatal ==
    (MultiThread /\ num_of_thread = 0) =>
        /\ mpc \in {"open", "panicked"}
        /\ spawned = 0
        /\ \A i \in DOMAIN wpc : wpc[i] = "unspawned"
        /\ invoked = EmptyMap
        /\ log_register = EmptyMap
        /\ channel = <<>>
        /\ ~Returned

\* C14's case: a file with lines, a worker count of 0, and the panic has happened
C14_Witness ==
    MultiThread /\ num_of_thread = 0 /\ mpc = "panicked" /\ Len(input_file) >= 1

---------------------------------------------------------------------------
\* the offset of the first byte of the n-th line thread i handed to the decoder
ConsumedStart(i, n) == LineStart(input_file, consumed[i][n].idx)
\* the lines whose first byte is exactly at the start offset of a thread i >= 1
StartsAtPartition(i) == {k \in LineIdx : LineStart(input_file, k) = start_idx(i)}

(* C15, as the claim has it: every line thread i consumes has its first byte
   in [i * bytes_portion, (i + 1) * bytes_portion), and a line whose first byte
   is exactly at i * bytes_portion (i >= 1) is consumed by thread i and not by
   thread i - 1.  The code does not behave so. *)
C15_OwnerByNominalRange ==
    (MultiThread /\ num_of_thread >= 1) =>
        /\ \A i \in Threads : \A n \in 1..Len(consumed[i]) :
              /\ start_idx(i) <= ConsumedStart(i, n)
              /\ ConsumedStart(i, n) < start_idx(i) + bytes_portion
        /\ Returned =>
              \A i \in Threads \ {0} : \A k \in StartsAtPartition(i) :
                  k \in ConsumedBy(i) /\ k \notin ConsumedBy(i - 1)

(* C15, as the code has it: the range of thread i is open at its start and
   closed at its end.  A thread that starts at offset 0 (thread 0, and every
   thread when bytes_portion = 0) consumes the lines whose first byte is in
   [0, bytes_portion].  A thread that starts at i * bytes_portion > 0 first
   consumes the first line that starts strictly after i * bytes_portion,
   wherever that is, and then only lines whose first byte is in
   (i * bytes_portion, (i + 1) * bytes_portion].
   A line whose first byte is exactly at i * bytes_portion (i >= 1,
   bytes_portion > 0) is never consumed by thread i, which discards it whole,
   and has been consumed by thread i - 1 when the parser returns. *)
C15_OwnerByReach ==
    (MultiThread /\ num_of_thread >= 1) =>
        /\ \A i \in Threads : \A n \in 1..Len(consumed[i]) :
              /\ consumed[i][n].whole
              /\ (start_idx(i) = 0 /\ n = 1) => ConsumedStart(i, n) = 0
              /\ (start_idx(i) > 0 /\ n = 1) =>
                    /\ ConsumedStart(i, n) > start_idx(i)
                    /\ ConsumedStart(i, n) = start_idx(i) + discarded[i]
                    /\ \A k \in LineIdx :
                          LineStart(input_file, k) > start_idx(i)
                              => LineStart(input_file, k) >= ConsumedStart(i, n)
              /\ n > 1 =>
                    /\ ConsumedStart(i, n) > start_idx(i)
                    /\ ConsumedStart(i, n) <= start_idx(i) + bytes_portion
        /\ bytes_portion > 0 =>
              \A i \in Threads \ {0} : \A k \in StartsAtPartition(i) :
                  /\ k \notin ConsumedBy(i)
                  /\ wpc[i] = "finished" => discarded[i] = Len(input_file[k])
                  /\ Returned => k \in ConsumedBy(i - 1)

\* C15's case: a finished run in which a line starts exactly at the start
\* offset of a thread i >= 1, which went on to consume a later line
C15_Witness ==
    /\ MultiThread /\ Returned /\ num_of_thread >= 2 /\ bytes_portion > 0
    /\ \E i \in Threads \ {0} :
          /\ StartsAtPartition(i) # {}
          /\ consumed[i] # <<>>

---------------------------------------------------------------------------
(* C16: a thread stops once the bytes it has read, the initial discard
   included, exceed bytes_portion, so every line it hands to the decoder has
   its first byte at an offset <= start_idx + bytes_portion, also when the
   discard alone is longer than bytes_portion.  Stated as the claim has it;
   the code breaks it. *)
C16_ConsumedWithinBudget ==
    (MultiThread /\ num_of_thread >= 1) =>
        \A i \in Threads : \A n \in 1..Len(consumed[i]) :
            ConsumedStart(i, n) <= start_idx(i) + bytes_portion

---------------------------------------------------------------------------
\* no key of the map has the zero value: each was counted at least once, and
\* every counted line has at least one byte
NoZeroValue(map) ==
    \A t \in DOMAIN map : map[t].counter >= 1 /\ map[t].num_of_bytes >= map[t].counter

(* C17: in every step of a run of either parser, a key present in the map
   stays in it and neither its counter nor its num_of_bytes decreases; and
   when the parser returns, every key has counter >= 1 and
   num_of_bytes >= counter. *)
C17_Monotone ==
    [][ MultiThread =>
          /\ \A t \in DOMAIN log_register :
                /\ t \in DOMAIN log_register'
                /\ log_register'[t].counter >= log_register[t].counter
                /\ log_register'[t].num_of_bytes >= log_register[t].num_of_bytes
          /\ Returned' => NoZeroValue(log_register') ]_vars

\* C17's case: a returned map with two keys, one of them counted more than once
C17_Witness ==
    /\ MultiThread /\ Returned /\ num_of_thread >= 2
    /\ Cardinality(DOMAIN log_register) >= 2
    /\ \E t \in DOMAIN log_register : log_register[t].counter >= 2

---------------------------------------------------------------------------
\* a non-empty file with fewer bytes than threads
FewerBytesThanThreads ==
    MultiThread /\ num_of_thread >= 1
    /\ 0 < Size(input_file) /\ Size(input_file) < num_of_thread

(* C18: when 0 < size < num_of_thread, bytes_portion is 0, every thread starts
   at offset 0 and discards nothing, hands the first line of the file to the
   decoder and stops; at return the first line was consumed once by each of
   the num_of_thread threads and no later line by any. *)
C18_TinyFile ==
    FewerBytesThanThreads =>
        /\ bytes_portion = 0
        /\ \A i \in Threads :
              /\ start_idx(i) = 0
              /\ discarded[i] = 0
              /\ consumed[i] \in {<<>>, <<[idx |-> 1, whole |-> TRUE]>>}
              /\ wpc[i] = "finished" =>
                    /\ consumed[i] # <<>>
                    /\ total_bytes_read[i] = Len(input_file[1])
        /\ Returned =>
              /\ \A i \in Threads : TimesConsumedBy(i, 1) = 1
              /\ \A k \in LineIdx \ {1} : k \in Unconsumed

\* C18's case: a returned run over a file of two lines with fewer bytes than threads
C18_Witness ==
    /\ FewerBytesThanThreads /\ Returned
    /\ Len(input_file) >= 2
    /\ \A i \in Threads : consumed[i] # <<>>

---------------------------------------------------------------------------
\* the last thread spawned
LastThread == num_of_thread - 1

(* C19: the last thread runs the same scan as every other one, with the
   budget bytes_portion, and not to the end of the file: when the parser
   returns, a line consumed by no thread has its first byte after
   num_of_thread * bytes_portion, which happens only with num_of_thread >= 3
   and a size that num_of_thread does not divide, and then the last thread has
   stopped over its budget before the end of the file; with num_of_thread <= 2
   no line is left unconsumed. *)
C19_LastWorkerStopsAtBudget ==
    (MultiThread /\ Returned /\ num_of_thread >= 1) =>
        /\ consumed[LastThread] =
              partially_read_file(input_file, start_idx(LastThread), bytes_portion)
        /\ \A k \in Unconsumed :
              /\ LineStart(input_file, k) > num_of_thread * bytes_portion
              /\ num_of_thread >= 3
              /\ Size(input_file) % num_of_thread # 0
              /\ cursor[LastThread] < Size(input_file)
              /\ total_bytes_read[LastThread] > bytes_portion
        /\ num_of_thread <= 2 => Unconsumed = {}

\* C19's case: a returned run of three threads or more over a file whose size
\* the thread count does not divide, with a last line that starts after
\* num_of_thread * bytes_portion and that no thread consumed
C19_Witness ==
    /\ MultiThread /\ Returned /\ num_of_thread >= 3
    /\ Size(input_file) % num_of_thread # 0
    /\ Len(input_file) \in Unconsumed
    /\ LineStart(input_file, Len(input_file)) > num_of_thread * bytes_portion
    /\ consumed[LastThread] # <<>>

====
